---- MODULE Spec2Model ----
(***************************************************************************)
(* Model of focused_mapper.py: the FocusedDatabaseMapper class (relevance  *)
(* filter, foreign-key graph construction, mapping cache, bounded BFS path *)
(* search, path cache) and the part of main() that drives it.              *)
(*                                                                         *)
(* Representation.  A Python str that the program builds by formatting is  *)
(* a sequence of its pieces (<<"--", "user_id", "-->", "id", "-->">> is    *)
(* "--user_id-->id-->"); a table name inside a path is the one-piece       *)
(* string <<"users">>.  A dict is a function whose DOMAIN is its key set.  *)
(* An edge entry carries the Python type of its container ("tuple" as      *)
(* built by the mapping run, "list" after a JSON round trip).  Timestamps  *)
(* are not modelled: no decision of the program reads them.                *)
(***************************************************************************)
EXTENDS Integers, Sequences, FiniteSets, TLC

VARIABLES
    catalog,             \* the database: its foreign keys, in catalog order
    mapper,              \* st.session_state.focused_mapper (an instance or NoMapper)
    path_cache_file,     \* content of path_cache.json, or NoFile
    mapping_cache_file,  \* content of mapping_cache.json, or NoFile
    last,                \* history: the last operation and what it returned
    log,                 \* history: outcomes of the mapping runs of the current instance
    created,             \* history: number of instances constructed so far
    asked                \* history: number of find_path calls so far

vars == <<catalog, mapper, path_cache_file, mapping_cache_file, last, log, created, asked>>

----------------------------------------------------------------------------
(* Bounds of the model *)

MaxParallel == 11   \* parallel foreign keys of the Wide catalog
MaxDepthArg == 5    \* largest max_depth passed to find_path
MaxRuns     == 2    \* mapping runs per mapper instance
MaxMappers  == 2    \* mapper instances constructed in one behaviour
MaxAsked    == 2    \* find_path calls in one behaviour
MaxLinks    == 4    \* foreign keys of a generated catalog

(* Program constant: the result cap of the search loop *)
ResultCap == 10

----------------------------------------------------------------------------
(* Generic helpers *)

Range(s) == {s[i] : i \in 1..Len(s)}

Last(s) == s[Len(s)]

EmptyDict == [k \in {} |-> {}]

DictGet(d, k, default) == IF k \in DOMAIN d THEN d[k] ELSE default

DictPut(d, k, v) == [x \in (DOMAIN d) \cup {k} |-> IF x = k THEN v ELSE d[x]]

\* dict[k].append(v) on a defaultdict(list), or on a dict after the
\* "if k not in dict: dict[k] = []" guard
DictAppend(d, k, v) == DictPut(d, k, Append(DictGet(d, k, <<>>), v))

----------------------------------------------------------------------------
(* Strings: characters of the names the model uses, str.lower() and the    *)
(* substring test of "pattern.lower() in table_lower"                      *)

Chars(s) ==
    CASE s = "users"       -> <<"u","s","e","r","s">>
      [] s = "orders"      -> <<"o","r","d","e","r","s">>
      [] s = "order_items" -> <<"o","r","d","e","r","_","i","t","e","m","s">>
      [] s = "products"    -> <<"p","r","o","d","u","c","t","s">>
      [] s = "user"        -> <<"u","s","e","r">>
      [] s = "order"       -> <<"o","r","d","e","r">>
      [] s = "Order"       -> <<"O","r","d","e","r">>
      [] s = "log"         -> <<"l","o","g">>
      [] s = "pmact"       -> <<"p","m","a","c","t">>
      [] s = "wf"          -> <<"w","f">>
      [] s = "workflow"    -> <<"w","o","r","k","f","l","o","w">>
      [] s = "activity"    -> <<"a","c","t","i","v","i","t","y">>
      [] s = "process"     -> <<"p","r","o","c","e","s","s">>

LowerChar(c) == IF c = "O" THEN "o" ELSE c

Lower(cs) == [i \in 1..Len(cs) |-> LowerChar(cs[i])]

\* Python "needle in haystack" on strings
IsSubstring(needle, hay) ==
    \E i \in 0..(Len(hay) - Len(needle)) :
        \A j \in 1..Len(needle) : hay[i + j] = needle[j]

\* str(n) for a natural number, as its decimal digits
DigitOf(n) == <<"0","1","2","3","4","5","6","7","8","9">>[n + 1]

RECURSIVE Str(_)
Str(n) == IF n < 10 THEN <<DigitOf(n)>> ELSE Append(Str(n \div 10), DigitOf(n % 10))

\* sorted() on a list of strings: code-point order of the pattern universe
Rank(s) ==
    CASE s = "Order"    -> 1
      [] s = "activity" -> 2
      [] s = "log"      -> 3
      [] s = "order"    -> 4
      [] s = "pmact"    -> 5
      [] s = "process"  -> 6
      [] s = "user"     -> 7
      [] s = "wf"       -> 8
      [] s = "workflow" -> 9

RECURSIVE Insert(_, _)
Insert(sorted, x) ==
    IF sorted = <<>> THEN <<x>>
    ELSE IF Rank(x) < Rank(Head(sorted)) THEN <<x>> \o sorted
    ELSE <<Head(sorted)>> \o Insert(Tail(sorted), x)

RECURSIVE Sorted(_)
Sorted(s) == IF s = <<>> THEN <<>> ELSE Insert(Sorted(SubSeq(s, 1, Len(s) - 1)), Last(s))

----------------------------------------------------------------------------
(* The database behind the Schema Source Adapter.  Every catalog has the   *)
(* same four tables; a catalog is the list of its single-column foreign    *)
(* keys, in the order the catalog queries return them.                     *)

FK(st, sc, tt, tc) ==
    [source_table |-> st, source_column |-> sc, target_table |-> tt, target_column |-> tc]

\* scenario of the specification: users <- orders <- order_items
Chain ==
    << FK("orders", "user_id", "users", "id"),
       FK("order_items", "order_id", "orders", "id") >>

\* two neighbours of users that both reference products
Diamond ==
    << FK("orders", "user_id", "users", "id"),
       FK("order_items", "user_id", "users", "id"),
       FK("orders", "product_id", "products", "id"),
       FK("order_items", "product_id", "products", "id") >>

\* order_items links two neighbours of users
Hub ==
    << FK("orders", "user_id", "users", "id"),
       FK("products", "owner_id", "users", "id"),
       FK("order_items", "order_id", "orders", "id"),
       FK("order_items", "product_id", "products", "id") >>

\* a self-reference, a cycle and two parallel foreign keys
Cyclic ==
    << FK("users", "manager_id", "users", "id"),
       FK("orders", "user_id", "users", "id"),
       FK("orders", "buyer_id", "users", "id"),
       FK("users", "last_order_id", "orders", "id") >>

ColName(i) ==
    <<"c1","c2","c3","c4","c5","c6","c7","c8","c9","c10","c11","c12","c13","c14">>[i]

\* MaxParallel columns of orders that all reference users.id
Wide == [i \in 1..MaxParallel |-> FK("orders", ColName(i), "users", "id")]

\* every foreign key of the four catalogs above
Links ==
    << FK("orders", "user_id", "users", "id"),
       FK("order_items", "order_id", "orders", "id"),
       FK("order_items", "user_id", "users", "id"),
       FK("orders", "product_id", "products", "id"),
       FK("order_items", "product_id", "products", "id"),
       FK("products", "owner_id", "users", "id"),
       FK("users", "manager_id", "users", "id"),
       FK("orders", "buyer_id", "users", "id"),
       FK("users", "last_order_id", "orders", "id") >>

\* the foreign keys of Links at the positions in keep, in the order of Links
RECURSIVE Pick(_, _)
Pick(i, keep) ==
    IF i > Len(Links) THEN <<>>
    ELSE IF i \in keep THEN <<Links[i]>> \o Pick(i + 1, keep)
    ELSE Pick(i + 1, keep)

\* catalogs of the search specification: Wide, the four above and every
\* catalog of at most MaxLinks foreign keys out of Links
Catalogs ==
    {Chain, Diamond, Hub, Cyclic, Wide}
        \cup {Pick(1, keep) : keep \in {k \in SUBSET (1..Len(Links)) : Cardinality(k) <= MaxLinks}}

\* catalogs of the mapping specification
MappingCatalogs == {Chain, Diamond, Hub, Cyclic}

\* catalogs of the session specification
SessionCatalogs == {Chain, Hub}

DbTypes == {"postgresql", "mysql", "sqlite"}

Databases == {"dev"}

\* information_schema.tables / sqlite_master, ORDER BY name
TableList == <<"order_items", "orders", "products", "users">>

Tables == Range(TableList)

\* columns of a table in ordinal position: its key, then its referencing columns
RECURSIVE FkColumns(_, _)
FkColumns(cat, t) ==
    IF cat = <<>> THEN <<>>
    ELSE LET rest == FkColumns(Tail(cat), t)
         IN  IF Head(cat).source_table = t
             THEN <<[name |-> Head(cat).source_column, type |-> "integer"]>> \o rest
             ELSE rest

WorldColumns(cat, t) == <<[name |-> "id", type |-> "integer"]>> \o FkColumns(cat, t)

(* The three catalog queries of the postgresql and mysql branches *)

\* mutant: the expansion query without its WHERE ... IN filter
ExpansionRowsUnfiltered(cat, seeds) ==
    { <<cat[i].source_table, cat[i].target_table>> : i \in 1..Len(cat) }

\* SELECT DISTINCT source table, referenced table ... WHERE source IN (..) OR referenced IN (..)
ExpansionRows(cat, seeds) ==
    { <<cat[i].source_table, cat[i].target_table>> :
        i \in { j \in 1..Len(cat) :
                  cat[j].source_table \in seeds \/ cat[j].target_table \in seeds } }

\* SELECT source_table, source_column, target_table, target_column ... WHERE source IN (..)
RECURSIVE ForeignKeyRows(_, _)
ForeignKeyRows(cat, scope) ==
    IF cat = <<>> THEN <<>>
    ELSE IF Head(cat).source_table \in scope
         THEN <<Head(cat)>> \o ForeignKeyRows(Tail(cat), scope)
         ELSE ForeignKeyRows(Tail(cat), scope)

\* SELECT table_name, column_name, data_type ... ORDER BY table_name, ordinal_position
RECURSIVE ColumnRows(_, _, _)
ColumnRows(cat, scope, tables) ==
    IF tables = <<>> THEN <<>>
    ELSE LET t    == Head(tables)
             rest == ColumnRows(cat, scope, Tail(tables))
         IN  IF t \in scope
             THEN [i \in 1..Len(WorldColumns(cat, t)) |->
                      [table_name |-> t, column |-> WorldColumns(cat, t)[i]]] \o rest
             ELSE rest

----------------------------------------------------------------------------
(* Cache files and the mapper instance *)

NoFile == [exists |-> FALSE, data |-> EmptyDict]

FileOf(d) == [exists |-> TRUE, data |-> d]

NoMapper == [absent |-> TRUE]

DefaultPatterns == <<"pmact", "wf", "workflow", "activity", "process", "user">>

\* _load_cache / _load_mapping_cache: the file's dict, {} when there is no file
LoadCache(file) == IF file.exists THEN file.data ELSE EmptyDict

\* __init__
NewMapper(db_type, database, patterns, pfile, mfile) ==
    [ db_type               |-> db_type,
      database              |-> database,
      patterns              |-> IF patterns = <<>> THEN DefaultPatterns ELSE patterns,
      relationships         |-> EmptyDict,
      reverse_relationships |-> EmptyDict,
      table_columns         |-> EmptyDict,
      all_tables            |-> {},
      path_cache            |-> LoadCache(pfile),
      mapping_cache         |-> LoadCache(mfile) ]

\* f"{self.db_type}_{self.connection_params.get('database', 'unknown')}"
DbInfo(self) == <<self.db_type, "_", self.database>>

\* json.dump followed by json.load of an index: every edge tuple comes back as a list
JsonIndex(index) ==
    [k \in DOMAIN index |->
        [i \in 1..Len(index[k]) |-> [index[k][i] EXCEPT !.py = "list"]]]

\* _save_mapping_cache: the content written to mapping_cache.json
MappingCacheData(self) ==
    [ patterns              |-> Sorted(self.patterns),
      db_info               |-> DbInfo(self),
      table_columns         |-> self.table_columns,
      relationships         |-> JsonIndex(self.relationships),
      reverse_relationships |-> JsonIndex(self.reverse_relationships),
      all_tables            |-> self.all_tables,
      total_tables          |-> Cardinality(DOMAIN self.table_columns),
      total_fks             |-> LET idx == self.relationships
                                    RECURSIVE Sum(_)
                                    Sum(ks) == IF ks = {} THEN 0
                                               ELSE LET k == CHOOSE x \in ks : TRUE
                                                    IN  Len(idx[k]) + Sum(ks \ {k})
                                IN  Sum(DOMAIN idx) ]

\* the compatibility test of _load_from_mapping_cache
CacheCompatible(cache, self) ==
    /\ cache # EmptyDict
    /\ Range(self.patterns) \subseteq Range(cache.patterns)
    /\ cache.db_info = DbInfo(self)

\* mutant: the restore leaves the reverse index as it was
LoadFromMappingCacheForwardOnly(self) ==
    IF ~CacheCompatible(self.mapping_cache, self)
    THEN [ok |-> FALSE, self |-> self]
    ELSE [ok |-> TRUE,
          self |-> [self EXCEPT
                      !.table_columns = self.mapping_cache.table_columns,
                      !.relationships = self.mapping_cache.relationships,
                      !.all_tables    = self.mapping_cache.all_tables]]

\* _load_from_mapping_cache: <<loaded?, the mapper afterwards>>
LoadFromMappingCache(self) ==
    IF ~CacheCompatible(self.mapping_cache, self)
    THEN [ok |-> FALSE, self |-> self]
    ELSE [ok |-> TRUE,
          self |-> [self EXCEPT
                      !.table_columns         = self.mapping_cache.table_columns,
                      !.relationships         = self.mapping_cache.relationships,
                      !.reverse_relationships = self.mapping_cache.reverse_relationships,
                      !.all_tables            = self.mapping_cache.all_tables]]

----------------------------------------------------------------------------
(* Relevance filter and graph construction *)

\* the places where the database can make a mapping run fail
FailPoints == {"none", "connect1", "tables", "expand", "connect2", "fks", "columns"}

\* "pattern.lower() in table_lower" for some pattern of the list
Matches(patterns, table) ==
    \E i \in 1..Len(patterns) :
        IsSubstring(Lower(Chars(patterns[i])), Lower(Chars(table)))

\* the seed set: tables whose name contains a pattern
Seeds(patterns) == {t \in Tables : Matches(patterns, t)}

\* the expansion loop: both tables of every row join the seed set
ExpandScope(seeds, rows) == seeds \cup {r[1] : r \in rows} \cup {r[2] : r \in rows}

\* get_relevant_tables.  raised: an exception leaves the method; calls: connect
\* and execute calls made; opened, closed: connections that connect() returned
\* and that were closed (the finally clause closes the one of this method);
\* result: the returned list (as a set)
GetRelevantTables(self, cat, fail) ==
    LET seeds    == Seeds(self.patterns)
        sql      == self.db_type \in {"postgresql", "mysql"}
        rows     == IF sql THEN ExpansionRows(cat, seeds) ELSE {}
        relevant == ExpandScope(seeds, rows)
    IN  IF fail = "connect1"
        THEN [raised |-> TRUE, at |-> "connect1", self |-> self, result |-> {}, calls |-> 1,
              opened |-> 0, closed |-> 0]
        ELSE IF fail = "tables"
        THEN [raised |-> TRUE, at |-> "tables", self |-> self, result |-> {}, calls |-> 2,
              opened |-> 1, closed |-> 1]
        ELSE IF sql /\ (seeds = {} \/ fail = "expand")
        \* an empty seed set makes the statement "... IN ()", which the server rejects
        THEN [raised |-> TRUE, at |-> "expand", self |-> self, result |-> {}, calls |-> 3,
              opened |-> 1, closed |-> 1]
        ELSE [raised |-> FALSE, at |-> "none",
              self   |-> [self EXCEPT !.all_tables = relevant],
              result |-> relevant,
              calls  |-> IF sql THEN 3 ELSE 2,
              opened |-> 1, closed |-> 1]

\* mutant: the reverse entry keeps the column order of the forward entry
RECURSIVE AddForeignKeysUnswapped(_, _)
AddForeignKeysUnswapped(self, rows) ==
    IF rows = <<>> THEN self
    ELSE LET row == Head(rows)
         IN  AddForeignKeysUnswapped(
                 [self EXCEPT
                    !.relationships =
                        DictAppend(@, row.source_table,
                            [next_table |-> row.target_table, src_col |-> row.source_column,
                             tgt_col |-> row.target_column, py |-> "tuple"]),
                    !.reverse_relationships =
                        DictAppend(@, row.target_table,
                            [next_table |-> row.source_table, src_col |-> row.source_column,
                             tgt_col |-> row.target_column, py |-> "tuple"])],
                 Tail(rows))

\* the loop over the foreign-key rows: both indexes get one entry per row
RECURSIVE AddForeignKeys(_, _)
AddForeignKeys(self, rows) ==
    IF rows = <<>> THEN self
    ELSE LET row == Head(rows)
         IN  AddForeignKeys(
                 [self EXCEPT
                    !.relationships =
                        DictAppend(@, row.source_table,
                            [next_table |-> row.target_table, src_col |-> row.source_column,
                             tgt_col |-> row.target_column, py |-> "tuple"]),
                    !.reverse_relationships =
                        DictAppend(@, row.target_table,
                            [next_table |-> row.source_table, src_col |-> row.target_column,
                             tgt_col |-> row.source_column, py |-> "tuple"])],
                 Tail(rows))

\* the loop over the column rows
RECURSIVE AddColumns(_, _)
AddColumns(self, rows) ==
    IF rows = <<>> THEN self
    ELSE AddColumns(
             [self EXCEPT !.table_columns = DictAppend(@, Head(rows).table_name, Head(rows).column)],
             Tail(rows))

\* map_focused_relationships.  outcome: "cache" and "fresh" return True,
\* "empty" and "error" return False; at: the step that raised; calls: connect
\* and execute calls made; opened, closed: connections opened and closed when
\* the method returns (its own connection is closed at line 385 only);
\* file: mapping_cache.json afterwards
MapFocusedRelationships(self, cat, mfile, fail) ==
    LET loaded == LoadFromMappingCache(self)
        rel    == GetRelevantTables(self, cat, fail)
        sql    == self.db_type \in {"postgresql", "mysql"}
        withFk == AddForeignKeys(rel.self,
                      IF sql THEN ForeignKeyRows(cat, rel.result) ELSE <<>>)
        done   == AddColumns(withFk,
                      IF sql THEN ColumnRows(cat, rel.result, TableList) ELSE <<>>)
    IN  IF loaded.ok
        THEN [outcome |-> "cache", at |-> "none", self |-> loaded.self, file |-> mfile, calls |-> 0,
              opened |-> 0, closed |-> 0]
        ELSE IF rel.raised
        THEN [outcome |-> "error", at |-> rel.at, self |-> rel.self, file |-> mfile,
              calls |-> rel.calls, opened |-> rel.opened, closed |-> rel.closed]
        ELSE IF rel.result = {}
        THEN [outcome |-> "empty", at |-> "none", self |-> rel.self, file |-> mfile,
              calls |-> rel.calls, opened |-> rel.opened, closed |-> rel.closed]
        ELSE IF fail = "connect2"
        THEN [outcome |-> "error", at |-> "connect2", self |-> rel.self, file |-> mfile,
              calls |-> rel.calls + 1, opened |-> rel.opened, closed |-> rel.closed]
        ELSE IF sql /\ fail = "fks"
        THEN [outcome |-> "error", at |-> "fks", self |-> rel.self, file |-> mfile,
              calls |-> rel.calls + 2, opened |-> rel.opened + 1, closed |-> rel.closed]
        ELSE IF sql /\ fail = "columns"
        THEN [outcome |-> "error", at |-> "columns", self |-> withFk, file |-> mfile,
              calls |-> rel.calls + 3, opened |-> rel.opened + 1, closed |-> rel.closed]
        ELSE [outcome |-> "fresh", at |-> "none", self |-> done,
              file    |-> FileOf(MappingCacheData(done)),
              calls   |-> rel.calls + (IF sql THEN 3 ELSE 1),
              opened  |-> rel.opened + 1, closed |-> rel.closed + 1]

----------------------------------------------------------------------------
(* Path cache and path search *)

\* _get_cache_key: f"{source}→{target}:{max_depth}"
GetCacheKey(source, target, max_depth) == <<source, "→", target, ":">> \o Str(max_depth)

\* a table name as an element of a path
Name(table) == <<table>>

\* f"--{src_col}-->{tgt_col}-->"
ForwardLabel(e) == <<"--", e.src_col, "-->", e.tgt_col, "-->">>

\* f"<--{tgt_col}<--{src_col}--"
ReverseLabel(e) == <<"<--", e.tgt_col, "<--", e.src_col, "--">>

\* mutant: a neighbour that is the target completes a path and is enqueued too
RECURSIVE ExpandThroughTarget(_, _, _, _, _, _)
ExpandThroughTarget(edges, reverse, path, target, max_depth, st) ==
    IF edges = <<>> THEN st
    ELSE LET e        == Head(edges)
             label    == IF reverse THEN ReverseLabel(e) ELSE ForwardLabel(e)
             new_path == path \o <<label, Name(e.next_table)>>
             found    == IF e.next_table = target
                         THEN [st EXCEPT !.paths = Append(@, new_path)]
                         ELSE st
             st2      == IF e.next_table \notin st.visited /\ Len(path) < max_depth
                         THEN [found EXCEPT !.queue =
                                  Append(@, [table |-> e.next_table, path |-> new_path])]
                         ELSE found
         IN  ExpandThroughTarget(Tail(edges), reverse, path, target, max_depth, st2)

\* one "for next_table, src_col, tgt_col in ..." loop of the search;
\* st is the loop state [queue, visited, paths]
RECURSIVE Expand(_, _, _, _, _, _)
Expand(edges, reverse, path, target, max_depth, st) ==
    IF edges = <<>> THEN st
    ELSE LET e        == Head(edges)
             label    == IF reverse THEN ReverseLabel(e) ELSE ForwardLabel(e)
             new_path == path \o <<label, Name(e.next_table)>>
             st2      == IF e.next_table = target
                         THEN [st EXCEPT !.paths = Append(@, new_path)]
                         ELSE IF e.next_table \notin st.visited /\ Len(path) < max_depth
                         THEN [st EXCEPT !.queue =
                                  Append(@, [table |-> e.next_table, path |-> new_path])]
                         ELSE st
         IN  Expand(Tail(edges), reverse, path, target, max_depth, st2)

\* mutant: the entry is taken from the right end of the queue (pop for popleft)
SearchIterationLifo(self, target, max_depth, st) ==
    LET current == Last(st.queue).table
        path    == Last(st.queue).path
        popped  == [st EXCEPT !.queue = SubSeq(@, 1, Len(@) - 1)]
    IN  IF Len(path) > max_depth THEN popped
        ELSE IF current \in popped.visited THEN popped
        ELSE LET marked  == [popped EXCEPT !.visited = @ \cup {current}]
                 forward == Expand(DictGet(self.relationships, current, <<>>),
                                   FALSE, path, target, max_depth, marked)
             IN  Expand(DictGet(self.reverse_relationships, current, <<>>),
                        TRUE, path, target, max_depth, forward)

\* mutant: an entry whose table was already visited stays at the head of the queue
SearchIterationPeek(self, target, max_depth, st) ==
    LET current == Head(st.queue).table
        path    == Head(st.queue).path
        popped  == [st EXCEPT !.queue = Tail(@)]
    IN  IF Len(path) > max_depth THEN popped
        ELSE IF current \in popped.visited THEN st
        ELSE LET marked  == [popped EXCEPT !.visited = @ \cup {current}]
                 forward == Expand(DictGet(self.relationships, current, <<>>),
                                   FALSE, path, target, max_depth, marked)
             IN  Expand(DictGet(self.reverse_relationships, current, <<>>),
                        TRUE, path, target, max_depth, forward)

\* the body of "while queue and len(paths) < 10"
SearchIteration(self, target, max_depth, st) ==
    LET current == Head(st.queue).table
        path    == Head(st.queue).path
        popped  == [st EXCEPT !.queue = Tail(@)]
    IN  IF Len(path) > max_depth THEN popped
        ELSE IF current \in popped.visited THEN popped
        ELSE LET marked  == [popped EXCEPT !.visited = @ \cup {current}]
                 forward == Expand(DictGet(self.relationships, current, <<>>),
                                   FALSE, path, target, max_depth, marked)
             IN  Expand(DictGet(self.reverse_relationships, current, <<>>),
                        TRUE, path, target, max_depth, forward)

RECURSIVE SearchLoop(_, _, _, _)
SearchLoop(self, target, max_depth, st) ==
    IF st.queue # <<>> /\ Len(st.paths) < ResultCap
    THEN SearchLoop(self, target, max_depth, SearchIteration(self, target, max_depth, st))
    ELSE st

\* mutant: the source is in the visited set before the loop starts
SearchSourceVisited(self, source, target, max_depth) ==
    SearchLoop(self, target, max_depth,
        [queue   |-> <<[table |-> source, path |-> <<Name(source)>>]>>,
         visited |-> {source},
         paths   |-> <<>>]).paths

\* the search of find_path, from its initial queue to the end of the loop
Search(self, source, target, max_depth) ==
    SearchLoop(self, target, max_depth,
        [queue   |-> <<[table |-> source, path |-> <<Name(source)>>]>>,
         visited |-> {},
         paths   |-> <<>>]).paths

\* _save_to_cache: the entry stored under the key
CacheEntry(source, target, max_depth, paths) ==
    [paths |-> paths, source |-> source, target |-> target, max_depth |-> max_depth]

\* mutant: the scope test looks at the source only
InScopeSourceOnly(self, source, target) == source \in DOMAIN self.table_columns

\* the scope test of find_path: both end points are keys of the column catalog
InScope(self, source, target) ==
    source \in DOMAIN self.table_columns /\ target \in DOMAIN self.table_columns

\* mutant: an entry with an empty path list does not count as a hit
CacheHitNonEmpty(self, key) ==
    key \in DOMAIN self.path_cache /\ self.path_cache[key].paths # <<>>

\* _get_from_cache and "if cached_result": an entry is a non-empty dict, so
\* every stored entry is a hit, whatever its paths
CacheHit(self, key) == key \in DOMAIN self.path_cache

\* mutant: the path cache is consulted before the source = target test
FindPathCacheFirst(self, pfile, source, target, max_depth) ==
    LET key   == GetCacheKey(source, target, max_depth)
        found == Search(self, source, target, max_depth)
        saved == [self EXCEPT !.path_cache =
                     DictPut(@, key, CacheEntry(source, target, max_depth, found))]
    IN  IF ~InScope(self, source, target)
        THEN [paths |-> <<>>, traversed |-> FALSE, self |-> self, file |-> pfile]
        ELSE IF CacheHit(self, key)
        THEN [paths |-> self.path_cache[key].paths, traversed |-> FALSE,
              self |-> self, file |-> pfile]
        ELSE IF source = target
        THEN [paths |-> <<<<Name(source)>>>>, traversed |-> FALSE, self |-> self, file |-> pfile]
        ELSE [paths |-> found, traversed |-> TRUE, self |-> saved,
              file |-> FileOf(saved.path_cache)]

\* find_path.  paths: the returned list; traversed: the search loop ran;
\* self, file: the mapper and path_cache.json afterwards
FindPath(self, pfile, source, target, max_depth) ==
    LET key   == GetCacheKey(source, target, max_depth)
        found == Search(self, source, target, max_depth)
        saved == [self EXCEPT !.path_cache =
                     DictPut(@, key, CacheEntry(source, target, max_depth, found))]
    IN  IF ~InScope(self, source, target)
        THEN [paths |-> <<>>, traversed |-> FALSE, self |-> self, file |-> pfile]
        ELSE IF source = target
        THEN [paths |-> <<<<Name(source)>>>>, traversed |-> FALSE, self |-> self, file |-> pfile]
        ELSE IF CacheHit(self, key)
        THEN [paths |-> self.path_cache[key].paths, traversed |-> FALSE,
              self |-> self, file |-> pfile]
        ELSE [paths |-> found, traversed |-> TRUE, self |-> saved,
              file |-> FileOf(saved.path_cache)]

----------------------------------------------------------------------------
(* The state machine *)

\* pattern lists given to the constructor; the empty list selects the defaults
PatternLists == { <<>>, <<"user">>, <<"user", "order">>, <<"Order">>, <<"log">> }

\* pattern lists of the mapping and session specifications
SessionPatterns == { <<"user">>, <<"user", "order">>, <<"log">> }

\* lower end of the "Profundidade" slider of main()
SliderMin == 1

\* queries of the session specification
SessionSources == {"users", "orders"}

SessionTargets == {"order_items", "products"}

SessionDepths == {SliderMin, MaxDepthArg}

NoCall == [op |-> "none"]

InitOver(catalogs) ==
    /\ catalog \in catalogs
    /\ mapper = NoMapper
    /\ path_cache_file = NoFile
    /\ mapping_cache_file = NoFile
    /\ last = NoCall
    /\ log = <<>>
    /\ created = 0
    /\ asked = 0

\* history record of a mapping run: what it returned, the step that raised,
\* the connect and execute calls it made, the connections it opened and
\* closed, and whether mapping_cache.json held an entry compatible with the
\* mapper when the run started
MapRecord(r, self, disk) ==
    [op |-> "map", outcome |-> r.outcome, at |-> r.at, calls |-> r.calls,
     opened |-> r.opened, closed |-> r.closed,
     persisted |-> CacheCompatible(LoadCache(disk), self)]

\* FocusedDatabaseMapper(db_type, connection_params, patterns)
Construct(db_type, database, patterns) ==
    /\ created < MaxMappers
    /\ mapper' = NewMapper(db_type, database, patterns, path_cache_file, mapping_cache_file)
    /\ log' = <<>>
    /\ created' = created + 1
    /\ last' = [op |-> "construct"]
    /\ UNCHANGED <<catalog, path_cache_file, mapping_cache_file, asked>>

\* mapper.map_focused_relationships()
MapRun(fail) ==
    /\ mapper # NoMapper
    /\ Len(log) < MaxRuns
    /\ LET r == MapFocusedRelationships(mapper, catalog, mapping_cache_file, fail)
       IN  /\ mapper' = r.self
           /\ mapping_cache_file' = r.file
           /\ log' = Append(log, r.outcome)
           /\ last' = MapRecord(r, mapper, mapping_cache_file)
    /\ UNCHANGED <<catalog, path_cache_file, created, asked>>

\* main(): the "Mapear Focado" button
MapButton(db_type, database, patterns, fail) ==
    /\ created < MaxMappers
    /\ LET new == NewMapper(db_type, database, patterns, path_cache_file, mapping_cache_file)
           r   == MapFocusedRelationships(new, catalog, mapping_cache_file, fail)
       IN  /\ mapper' = IF r.outcome \in {"cache", "fresh"} THEN r.self ELSE NoMapper
           /\ mapping_cache_file' = r.file
           /\ log' = <<r.outcome>>
           /\ last' = MapRecord(r, new, mapping_cache_file)
    /\ created' = created + 1
    /\ UNCHANGED <<catalog, path_cache_file, asked>>

\* mapper.find_path(source, target, max_depth)
Find(source, target, max_depth) ==
    /\ mapper # NoMapper
    /\ asked < MaxAsked
    /\ LET r == FindPath(mapper, path_cache_file, source, target, max_depth)
       IN  /\ mapper' = r.self
           /\ path_cache_file' = r.file
           /\ last' = [op |-> "find", source |-> source, target |-> target,
                       max_depth |-> max_depth, paths |-> r.paths,
                       traversed |-> r.traversed,
                       tampered |-> FALSE,
                       after_tamper |-> last.op = "find" /\ last.tampered,
                       again |-> /\ last.op = "find"
                                 /\ last.traversed
                                 /\ last.source = source
                                 /\ last.target = target
                                 /\ last.max_depth = max_depth,
                       previous |-> IF last.op = "find" THEN last.paths ELSE <<>>]
    /\ asked' = asked + 1
    /\ UNCHANGED <<catalog, mapping_cache_file, log, created>>

\* main(): the "Buscar Caminhos" button, shown once a mapping is active
FindButton(source, target, max_depth) ==
    /\ mapper # NoMapper
    /\ DOMAIN mapper.table_columns # {}
    /\ Find(source, target, max_depth)

\* mapper.clear_cache()
ClearCache ==
    /\ mapper # NoMapper
    /\ mapper' = [mapper EXCEPT !.path_cache = EmptyDict]
    /\ path_cache_file' = NoFile
    /\ last' = [op |-> "clear_cache"]
    /\ UNCHANGED <<catalog, mapping_cache_file, log, created, asked>>

\* main(): mapper.path_cache = mapper._load_cache()
ReloadCache ==
    /\ mapper # NoMapper
    /\ mapper' = [mapper EXCEPT !.path_cache = LoadCache(path_cache_file)]
    /\ last' = [op |-> "reload_cache"]
    /\ UNCHANGED <<catalog, path_cache_file, mapping_cache_file, log, created, asked>>

\* mapper.clear_mapping_cache()
ClearMappingCache ==
    /\ mapper # NoMapper
    /\ mapper' = [mapper EXCEPT !.mapping_cache = EmptyDict]
    /\ mapping_cache_file' = NoFile
    /\ last' = [op |-> "clear_mapping_cache"]
    /\ UNCHANGED <<catalog, path_cache_file, log, created, asked>>

\* test harness of the cache idempotence property: the live graph is
\* corrupted (both indexes emptied) right after a path query
CorruptGraph ==
    /\ mapper # NoMapper
    /\ last.op = "find"
    /\ ~last.tampered
    /\ mapper' = [mapper EXCEPT !.relationships = EmptyDict, !.reverse_relationships = EmptyDict]
    /\ last' = [last EXCEPT !.tampered = TRUE]
    /\ UNCHANGED <<catalog, path_cache_file, mapping_cache_file, log, created, asked>>

(* The application: what main() lets its user do *)

Init == InitOver(SessionCatalogs)

Next ==
    \/ \E t \in DbTypes, db \in Databases, p \in SessionPatterns, f \in FailPoints :
          MapButton(t, db, p, f)
    \/ \E s \in SessionSources, t \in SessionTargets, d \in SessionDepths :
          FindButton(s, t, d)
    \/ ClearCache
    \/ ReloadCache

Spec == Init /\ [][Next]_vars

(* The application under the corruption test *)

NextCorrupt == Next \/ CorruptGraph

SpecCorrupt == Init /\ [][NextCorrupt]_vars

(* The mapper as a library: mapping runs on one or more instances.  The    *)
(* path operations are left out: no mapping operation reads the path       *)
(* cache, and find_path changes nothing else.                              *)

InitMapping == InitOver(MappingCatalogs)

NextMapping ==
    \/ \E t \in DbTypes, db \in Databases, p \in SessionPatterns : Construct(t, db, p)
    \/ \E f \in FailPoints : MapRun(f)
    \/ ClearMappingCache

SpecMapping == InitMapping /\ [][NextMapping]_vars

(* One mapping on a new instance, then one path query, over every catalog, *)
(* pattern list, end point and depth of the bounds                         *)

InitSearch == InitOver(Catalogs)

NextSearch ==
    \/ \E t \in DbTypes, db \in Databases, p \in PatternLists, f \in FailPoints :
          created = 0 /\ MapButton(t, db, p, f)
    \/ \E s \in Tables, t \in Tables, d \in 0..MaxDepthArg :
          asked = 0 /\ Find(s, t, d)

SpecSearch == InitSearch /\ [][NextSearch]_vars

(* Queries from a table to itself, on a path_cache.json that exists before *)
(* the program starts and holds entries under the keys of such queries     *)

SelfCatalogs == {Chain, Cyclic}

\* contents of path_cache.json that _load_cache finds at construction: one
\* entry under the key of find_path(x, x, d), with an empty or a non-empty list
SeededPathCaches ==
    UNION { { DictPut(EmptyDict, GetCacheKey(x, x, d), CacheEntry(x, x, d, paths)) :
                d \in {0, MaxDepthArg},
                paths \in { <<>>,
                            << <<Name(x), <<"--", "manager_id", "-->", "id", "-->">>,
                                 Name(x)>> >> } } :
            x \in {"users", "orders"} }

InitSelf ==
    /\ catalog \in SelfCatalogs
    /\ mapper = NoMapper
    /\ path_cache_file \in {NoFile} \cup {FileOf(c) : c \in SeededPathCaches}
    /\ mapping_cache_file = NoFile
    /\ last = NoCall
    /\ log = <<>>
    /\ created = 0
    /\ asked = 0

NextSelf ==
    \/ \E t \in DbTypes, db \in Databases, p \in SessionPatterns, f \in FailPoints :
          created = 0 /\ MapButton(t, db, p, f)
    \/ \E x \in Tables, d \in 0..MaxDepthArg : Find(x, x, d)

SpecSelf == InitSelf /\ [][NextSelf]_vars

(* The search of find_path with one step per iteration of its loop.  The   *)
(* history record of a search in progress holds the loop state st and, for *)
(* every entry taken from the queue, its table and whether the entry was   *)
(* expanded (lines 429-447 ran for it).                                    *)

\* two parallel foreign keys followed by a third one
ParallelChain ==
    << FK("orders", "user_id", "users", "id"),
       FK("orders", "buyer_id", "users", "id"),
       FK("order_items", "order_id", "orders", "id") >>

StepCatalogs == {Chain, Diamond, Hub, Cyclic, Wide, ParallelChain}

StepPatterns == { <<"user">>, <<"user", "order">> }

\* the condition of "while queue and len(paths) < 10"
Looping(st) == st.queue # <<>> /\ Len(st.paths) < ResultCap

\* find_path up to its loop: both end points in scope, source # target, no
\* entry in the path cache; queue, visited and paths get their first values
BeginSearch(source, target, max_depth) ==
    /\ mapper # NoMapper
    /\ asked < MaxAsked
    /\ last.op # "search"
    /\ InScope(mapper, source, target)
    /\ source # target
    /\ ~CacheHit(mapper, GetCacheKey(source, target, max_depth))
    /\ last' = [op |-> "search", source |-> source, target |-> target,
                max_depth |-> max_depth,
                st |-> [queue   |-> <<[table |-> source, path |-> <<Name(source)>>]>>,
                        visited |-> {},
                        paths   |-> <<>>],
                dequeued |-> <<>>]
    /\ UNCHANGED <<catalog, mapper, path_cache_file, mapping_cache_file, log, created, asked>>

\* one iteration of the loop; the history gets the entry that the iteration
\* took from the queue
SearchStep ==
    /\ last.op = "search"
    /\ Looping(last.st)
    /\ LET current == Head(last.st.queue)
           expands == /\ ~(Len(current.path) > last.max_depth)
                      /\ current.table \notin last.st.visited
           next    == SearchIteration(mapper, last.target, last.max_depth, last.st)
       IN  last' = [last EXCEPT
                      !.st = next,
                      !.dequeued = IF next.queue # last.st.queue
                                   THEN Append(@, [table |-> current.table,
                                                   expanded |-> expands])
                                   ELSE @]
    /\ UNCHANGED <<catalog, mapper, path_cache_file, mapping_cache_file, log, created, asked>>

\* the loop has ended: the result is stored in the path cache and returned
EndSearch ==
    /\ last.op = "search"
    /\ ~Looping(last.st)
    /\ LET key   == GetCacheKey(last.source, last.target, last.max_depth)
           saved == [mapper EXCEPT !.path_cache =
                        DictPut(@, key, CacheEntry(last.source, last.target,
                                                   last.max_depth, last.st.paths))]
       IN  /\ mapper' = saved
           /\ path_cache_file' = FileOf(saved.path_cache)
           /\ last' = [op |-> "find", source |-> last.source, target |-> last.target,
                       max_depth |-> last.max_depth, paths |-> last.st.paths,
                       traversed |-> TRUE, tampered |-> FALSE, after_tamper |-> FALSE,
                       again |-> FALSE, previous |-> <<>>, dequeued |-> last.dequeued]
    /\ asked' = asked + 1
    /\ UNCHANGED <<catalog, mapping_cache_file, log, created>>

InitSteps == InitOver(StepCatalogs)

NextSteps ==
    \/ \E t \in DbTypes, db \in Databases, p \in StepPatterns, f \in FailPoints :
          created = 0 /\ MapButton(t, db, p, f)
    \/ \E s \in Tables, t \in Tables, d \in 0..MaxDepthArg :
          asked = 0 /\ BeginSearch(s, t, d)
    \/ SearchStep
    \/ EndSearch

SpecSteps == InitSteps /\ [][NextSteps]_vars

\* the loop is not suspended: a started search takes its next iteration, and
\* find_path returns once the loop has ended
SpecStepsFair == SpecSteps /\ WF_vars(SearchStep) /\ WF_vars(EndSearch)

----------------------------------------------------------------------------
(* Properties *)

\* the table names of a path (its one-piece elements), labels left out
TableNames(path) == {i \in 1..Len(path) : Len(path[i]) = 1}

Returned == IF last.op = "find" THEN Range(last.paths) ELSE {}

FreshlyMapped == mapper # NoMapper /\ log = <<"fresh">>

\* C1: every path returned by find_path(A, B, d) for distinct in-scope A and B
\* holds at most d table names.
C1_PathWithinDepth ==
    (last.op = "find" /\ last.source # last.target) =>
        \A path \in Returned : Cardinality(TableNames(path)) <= last.max_depth

\* C2: a step from the referenced table T to the referencing table S over the
\* foreign key S.sc -> T.tc is labelled "<--tc<--sc--"; after a fresh mapping of
\* the Chain catalog with patterns user, order and an empty path cache,
\* find_path("users", "order_items", 5) returns exactly the one path
\* users <--id<--user_id-- orders <--id<--order_id-- order_items.
C2_ReverseLabel ==
    (FreshlyMapped /\ last.op = "find" /\ last.traversed) =>
        /\ \A path \in Returned : \A i \in 1..Len(path) :
              (Len(path[i]) = 5 /\ path[i][1] = "<--") =>
                  \E k \in 1..Len(catalog) :
                      /\ path[i - 1] = Name(catalog[k].target_table)
                      /\ path[i + 1] = Name(catalog[k].source_table)
                      /\ path[i] = <<"<--", catalog[k].target_column,
                                     "<--", catalog[k].source_column, "--">>
        /\ ( /\ catalog = Chain
             /\ mapper.patterns = <<"user", "order">>
             /\ last.source = "users" /\ last.target = "order_items" /\ last.max_depth = 5 )
           => last.paths = << << Name("users"), <<"<--", "id", "<--", "user_id", "--">>,
                                 Name("orders"), <<"<--", "id", "<--", "order_id", "--">>,
                                 Name("order_items") >> >>

C4_RestoreIffCompatible ==
    last.op = "map" => ((last.outcome = "cache" /\ last.calls = 0) <=> last.persisted)

\* the table has a name that contains one of the mapper's patterns
DirectMatch(t) == Matches(mapper.patterns, t)

\* the table shares a foreign key, in either direction, with a matching table
MatchNeighbour(t) ==
    \E k \in 1..Len(catalog) :
        \/ catalog[k].source_table = t /\ DirectMatch(catalog[k].target_table)
        \/ catalog[k].target_table = t /\ DirectMatch(catalog[k].source_table)

\* C5: every table the relevance filter puts in scope matches a pattern or
\* shares a foreign key with a table that does; a table that does neither
\* (order_items for the pattern user in the Chain catalog) is not in scope and
\* find_path to it returns [].
C5_OneHopScope ==
    FreshlyMapped =>
        /\ \A t \in mapper.all_tables : DirectMatch(t) \/ MatchNeighbour(t)
        /\ \A t \in Tables :
              ~(DirectMatch(t) \/ MatchNeighbour(t)) =>
                  /\ t \notin mapper.all_tables
                  /\ t \notin DOMAIN mapper.table_columns
                  /\ (last.op = "find" /\ last.target = t) => last.paths = <<>>

\* C5 witness: the scenario of the claim, after the path query
C5_Witness ==
    /\ FreshlyMapped
    /\ catalog = Chain
    /\ mapper.patterns = <<"user">>
    /\ mapper.all_tables = {"users", "orders"}
    /\ last.op = "find" /\ last.source = "users" /\ last.target = "order_items"
    /\ last.max_depth = 5
    /\ last.paths = <<>>

\* C6: find_path never returns more than ten paths.
C6_AtMostTenPaths == last.op = "find" => Len(last.paths) <= ResultCap

\* the graph of a mapper: scope, column catalog and both indexes
GraphOf(self) ==
    <<self.all_tables, self.table_columns, self.relationships, self.reverse_relationships>>

\* C7: a mapping run that fails on an instance that holds a successfully mapped
\* graph leaves scope, column catalog and both indexes as they were.
C7_FailedRunKeepsGraph ==
    [][ ( /\ mapper # NoMapper
          /\ mapper' # NoMapper
          /\ \E i \in 1..Len(log) : log[i] \in {"fresh", "cache"}
          /\ Len(log') = Len(log) + 1
          /\ Last(log') = "error" )
        => GraphOf(mapper') = GraphOf(mapper) ]_vars

\* C8: with each backend, a successful mapping run that did not use the cache
\* puts the one-hop neighbours of the matching tables in scope, records every
\* foreign key whose source table is in scope in both indexes, and gives every
\* table in scope an entry of the column catalog.
C8_AllBackendsBuild ==
    FreshlyMapped =>
        /\ \A t \in Tables : (DirectMatch(t) \/ MatchNeighbour(t)) => t \in mapper.all_tables
        /\ \A k \in 1..Len(catalog) :
              catalog[k].source_table \in mapper.all_tables =>
                  /\ \E e \in Range(DictGet(mapper.relationships, catalog[k].source_table, <<>>)) :
                        /\ e.next_table = catalog[k].target_table
                        /\ e.src_col = catalog[k].source_column
                        /\ e.tgt_col = catalog[k].target_column
                  /\ \E e \in Range(DictGet(mapper.reverse_relationships,
                                            catalog[k].target_table, <<>>)) :
                        /\ e.next_table = catalog[k].source_table
                        /\ e.src_col = catalog[k].target_column
                        /\ e.tgt_col = catalog[k].source_column
        /\ \A t \in mapper.all_tables : t \in DOMAIN mapper.table_columns

\* C9: after a fresh mapping run, every table name in a path returned by
\* find_path is a key of the column catalog.
C9_PathsStayInScope ==
    (FreshlyMapped /\ last.op = "find") =>
        \A path \in Returned : \A i \in TableNames(path) :
            path[i][1] \in DOMAIN mapper.table_columns

C11_SelfPathIsTrivial ==
    ( /\ last.op = "find"
      /\ mapper # NoMapper
      /\ last.source = last.target
      /\ last.source \in DOMAIN mapper.table_columns )
        => last.paths = << <<Name(last.source)>> >>

\* C11 witness: users references itself, the path cache holds another list
\* under the key of the query, and find_path("users", "users", 0) returned
\* [["users"]]
C11_Witness ==
    /\ last.op = "find"
    /\ mapper # NoMapper
    /\ catalog = Cyclic
    /\ last.source = "users" /\ last.target = "users" /\ last.max_depth = 0
    /\ "users" \in DOMAIN mapper.table_columns
    /\ \E e \in Range(DictGet(mapper.relationships, "users", <<>>)) : e.next_table = "users"
    /\ LET key == GetCacheKey("users", "users", 0)
       IN  key \in DOMAIN mapper.path_cache /\ mapper.path_cache[key].paths = <<>>
    /\ last.paths = << <<Name("users")>> >>

\* an index with the Python container type of its entries left out: the
\* tables, and for each table its edges in order
EdgesOf(index) ==
    [k \in DOMAIN index |->
        [i \in 1..Len(index[k]) |->
            <<index[k][i].next_table, index[k][i].src_col, index[k][i].tgt_col>>]]

\* C12: when a mapper has built and persisted a graph and the next mapper,
\* with the same pattern set and fingerprint, restores it from the mapping
\* cache, the restored column catalog, forward index and reverse index hold the
\* same tables, the same edges in the same order and the same column
\* descriptors in the same order as the graph that was persisted.
C12_MappingCacheRoundTrip ==
    [][ ( /\ mapper # NoMapper
          /\ log = <<"fresh">>
          /\ mapper' # NoMapper
          /\ log' = <<"cache">>
          /\ Range(mapper'.patterns) = Range(mapper.patterns)
          /\ DbInfo(mapper') = DbInfo(mapper) )
        => /\ mapper'.table_columns = mapper.table_columns
           /\ EdgesOf(mapper'.relationships) = EdgesOf(mapper.relationships)
           /\ EdgesOf(mapper'.reverse_relationships) = EdgesOf(mapper.reverse_relationships)
      ]_vars

\* C12 witness: a graph with edges in both indexes and columns was restored
\* from the entry that the previous mapper persisted; its edges are JSON lists
C12_Witness ==
    /\ mapper # NoMapper
    /\ log = <<"cache">>
    /\ last.op = "map" /\ last.outcome = "cache" /\ last.persisted
    /\ created = 2
    /\ mapping_cache_file.exists
    /\ mapper.table_columns = mapping_cache_file.data.table_columns
    /\ DOMAIN mapper.table_columns # {}
    /\ DOMAIN mapper.relationships # {}
    /\ DOMAIN mapper.reverse_relationships # {}
    /\ \A k \in DOMAIN mapper.relationships :
          \A i \in 1..Len(mapper.relationships[k]) : mapper.relationships[k][i].py = "list"

\* the mapper's last mapping run returned True
LastRunSucceeded == mapper # NoMapper /\ log # <<>> /\ Last(log) \in {"fresh", "cache"}

\* C13: after every successful mapping run, the key table and the neighbour
\* table of every entry of the forward index and of the reverse index are keys
\* of the column catalog.
C13_EdgeEndpointsInScope ==
    LastRunSucceeded =>
        /\ \A k \in DOMAIN mapper.relationships :
              /\ k \in DOMAIN mapper.table_columns
              /\ \A e \in Range(mapper.relationships[k]) :
                    e.next_table \in DOMAIN mapper.table_columns
        /\ \A k \in DOMAIN mapper.reverse_relationships :
              /\ k \in DOMAIN mapper.table_columns
              /\ \A e \in Range(mapper.reverse_relationships[k]) :
                    e.next_table \in DOMAIN mapper.table_columns

\* C14: two consecutive successful non-cached mapping runs on one mapper
\* instance, against the same database, leave the column catalog and both
\* indexes as they were after the first run.
C14_RunReplacesGraph ==
    [][ ( /\ mapper # NoMapper
          /\ log # <<>>
          /\ Last(log) = "fresh"
          /\ mapper' # NoMapper
          /\ log' = Append(log, "fresh") )
        => /\ mapper'.table_columns = mapper.table_columns
           /\ mapper'.relationships = mapper.relationships
           /\ mapper'.reverse_relationships = mapper.reverse_relationships ]_vars

\* C15: when map_focused_relationships returns, on success or on failure,
\* every connection opened during the run has been closed.
C15_ConnectionsClosed ==
    last.op = "map" => last.closed = last.opened

\* the paths a search has produced so far, or has returned
Produced ==
    IF last.op = "search" THEN Range(last.st.paths)
    ELSE IF last.op = "find" /\ last.traversed THEN Range(last.paths)
    ELSE {}

\* the entries a search has taken from its queue so far
Dequeued == IF last.op \in {"search", "find"} THEN last.dequeued ELSE <<>>

\* C16: every path produced by a search of find_path(A, B, d) has odd length,
\* alternates table names and labels, begins with A, ends with B and holds no
\* table name twice; an entry of the queue is expanded only if it is the first
\* entry taken for its table (so each table is expanded at most once), and the
\* target is never expanded.
C16_PathsWellFormed ==
    /\ \A path \in Produced :
          /\ Len(path) % 2 = 1
          /\ \A i \in 1..Len(path) :
                IF i % 2 = 1
                THEN Len(path[i]) = 1 /\ path[i][1] \in Tables
                ELSE Len(path[i]) = 5 /\ path[i][1] \in {"--", "<--"}
          /\ path[1] = Name(last.source)
          /\ path[Len(path)] = Name(last.target)
          /\ \A i, j \in 1..Len(path) :
                (i % 2 = 1 /\ j % 2 = 1 /\ i # j) => path[i] # path[j]
    /\ \A j \in 1..Len(Dequeued) :
          Dequeued[j].expanded =>
              /\ Dequeued[j].table # last.target
              /\ \A i \in 1..(j - 1) : Dequeued[i].table # Dequeued[j].table

\* C16 witness: a finished search on a graph with parallel edges that took
\* one table from the queue more than once, expanded two tables and returned a
\* path of two steps
C16_Witness ==
    /\ last.op = "find" /\ last.traversed
    /\ catalog = ParallelChain
    /\ \E i, j \in 1..Len(last.dequeued) :
          /\ i < j
          /\ last.dequeued[i].table = last.dequeued[j].table
          /\ last.dequeued[i].expanded
          /\ ~last.dequeued[j].expanded
    /\ \E i, j \in 1..Len(last.dequeued) :
          /\ last.dequeued[i].expanded /\ last.dequeued[j].expanded
          /\ last.dequeued[i].table # last.dequeued[j].table
    /\ \E path \in Range(last.paths) : Len(path) = 5

\* C18: every search of find_path that has started ends and find_path returns,
\* on graphs with cycles, self-references and parallel edges, for every
\* max_depth from 0 on.
C18_SearchTerminates == (last.op = "search") ~> (last.op = "find")

\* C18 witness: find_path returned after a search of several iterations on
\* the graph with a self-reference, a cycle and parallel edges
C18_Witness ==
    /\ last.op = "find" /\ last.traversed
    /\ catalog = Cyclic
    /\ last.max_depth = MaxDepthArg
    /\ Len(last.dequeued) >= 3
    /\ \E e \in Range(DictGet(mapper.relationships, "users", <<>>)) : e.next_table = "users"

\* how many times the index holds (next_table, first, second) under the key
Holds(index, key, next_table, first, second) ==
    Cardinality({ i \in 1..Len(DictGet(index, key, <<>>)) :
                    /\ index[key][i].next_table = next_table
                    /\ index[key][i].src_col = first
                    /\ index[key][i].tgt_col = second })

\* C17: after any sequence of mapping runs, the forward index of S holds
\* (T, sc, tc) as many times as the reverse index of T holds (S, tc, sc).
C17_IndexesMirror ==
    mapper # NoMapper =>
        /\ \A S \in DOMAIN mapper.relationships :
              \A e \in Range(mapper.relationships[S]) :
                  Holds(mapper.relationships, S, e.next_table, e.src_col, e.tgt_col)
                    = Holds(mapper.reverse_relationships, e.next_table, S, e.tgt_col, e.src_col)
        /\ \A T \in DOMAIN mapper.reverse_relationships :
              \A e \in Range(mapper.reverse_relationships[T]) :
                  Holds(mapper.reverse_relationships, T, e.next_table, e.src_col, e.tgt_col)
                    = Holds(mapper.relationships, e.next_table, T, e.tgt_col, e.src_col)

\* C17 witness: a mapper that restored its graph from the mapping cache and
\* then built it again from the database holds orders.user_id -> users.id
\* twice in each index, once as a JSON list and once as a tuple
C17_Witness ==
    /\ mapper # NoMapper
    /\ log = <<"cache", "fresh">>
    /\ Holds(mapper.relationships, "orders", "users", "user_id", "id") = 2
    /\ Holds(mapper.reverse_relationships, "users", "orders", "id", "user_id") = 2
    /\ \E e \in Range(mapper.relationships["orders"]) : e.py = "list"
    /\ \E e \in Range(mapper.relationships["orders"]) : e.py = "tuple"

\* the step path[i-1], path[i], path[i+1] follows an entry of the mapper's
\* forward or reverse index and carries the label of that entry
StepInGraph(self, path, i) ==
    LET from == path[i - 1][1]
        to   == path[i + 1][1]
    IN  \/ \E e \in Range(DictGet(self.relationships, from, <<>>)) :
              e.next_table = to /\ path[i] = ForwardLabel(e)
        \/ \E e \in Range(DictGet(self.reverse_relationships, from, <<>>)) :
              e.next_table = to /\ path[i] = ReverseLabel(e)

\* C19: after any sequence of mapping runs and path queries, every path
\* returned by find_path is a walk in the graph of the mapper that returned
\* it: each label, with the tables before and after it, is an edge of the
\* current forward or reverse index.
C19_ReturnedPathsAreWalks ==
    (last.op = "find" /\ mapper # NoMapper) =>
        \A path \in Returned :
            \A i \in 1..Len(path) : (i % 2 = 0) => StepInGraph(mapper, path, i)

\* the tables one foreign key away from t, in either direction
Neighbours(self, t) ==
    { e.next_table : e \in Range(DictGet(self.relationships, t, <<>>))
                            \cup Range(DictGet(self.reverse_relationships, t, <<>>)) }

\* the tables at most k foreign-key hops from t, the graph taken as undirected
RECURSIVE Within(_, _, _)
Within(self, t, k) ==
    IF k = 0 THEN {t}
    ELSE LET near == Within(self, t, k - 1)
         IN  near \cup UNION { Neighbours(self, n) : n \in near }

\* the number of steps of a path
Hops(path) == (Len(path) - 1) \div 2

\* ceil(d / 2)
HalfUp(d) == (d + 1) \div 2

\* C20: for distinct in-scope A and B and an empty path cache, find_path(A, B, d)
\* with d >= 1 returns a non-empty list exactly when B is at most ceil(d/2)
\* foreign-key hops from A in the graph taken as undirected, no returned path
\* has more than ceil(d/2) hops, and find_path(A, B, 0) returns [].
C20_DepthCountsElements ==
    ( /\ last.op = "find"
      /\ mapper # NoMapper
      /\ last.traversed
      /\ last.source # last.target
      /\ last.source \in DOMAIN mapper.table_columns
      /\ last.target \in DOMAIN mapper.table_columns )
        => IF last.max_depth = 0
           THEN last.paths = <<>>
           ELSE /\ (last.paths # <<>>) <=>
                      (last.target \in Within(mapper, last.source, HalfUp(last.max_depth)))
                /\ \A path \in Returned : Hops(path) <= HalfUp(last.max_depth)

\* C20 witness: the target is three hops from the source and not less, and
\* find_path with max_depth 5 returned a path of three hops
C20_Witness ==
    /\ last.op = "find" /\ last.traversed
    /\ mapper # NoMapper
    /\ last.max_depth = 5
    /\ last.target \notin Within(mapper, last.source, 2)
    /\ last.target \in Within(mapper, last.source, 3)
    /\ \E path \in Returned : Hops(path) = 3

\* what a mapping run of a new instance with the mapper's backend, database
\* and patterns builds from the database when there is no mapping cache
FreshBuild(self) ==
    MapFocusedRelationships(
        NewMapper(self.db_type, self.database, self.patterns, NoFile, NoFile),
        catalog, NoFile, "none").self

\* C21: when a mapping run is served from the mapping cache, the scope, the
\* column catalog and both indexes equal what a fresh build with the requested
\* patterns produces on the same database, also when the requested patterns
\* are a strict subset of the cached ones.
C21_RestoreEqualsFreshBuild ==
    (last.op = "map" /\ last.outcome = "cache" /\ mapper # NoMapper) =>
        LET fresh == FreshBuild(mapper)
        IN  /\ mapper.all_tables = fresh.all_tables
            /\ mapper.table_columns = fresh.table_columns
            /\ EdgesOf(mapper.relationships) = EdgesOf(fresh.relationships)
            /\ EdgesOf(mapper.reverse_relationships) = EdgesOf(fresh.reverse_relationships)

\* C22: the list produced by a search of find_path holds its paths in
\* non-decreasing hop count, and its first path has the least hop count of
\* all paths from the source to the target in the graph taken as undirected.
C22_ShortestFirst ==
    (last.op = "find" /\ last.traversed /\ mapper # NoMapper) =>
        /\ \A i \in 1..(Len(last.paths) - 1) :
              Hops(last.paths[i]) <= Hops(last.paths[i + 1])
        /\ last.paths # <<>> =>
              /\ last.target \in Within(mapper, last.source, Hops(last.paths[1]))
              /\ last.target \notin Within(mapper, last.source, Hops(last.paths[1]) - 1)

\* C22 witness: a search returned paths of different hop counts, the first
\* one of two hops, while the source and the target share no foreign key
C22_Witness ==
    /\ last.op = "find" /\ last.traversed
    /\ mapper # NoMapper
    /\ Len(last.paths) >= 2
    /\ Hops(last.paths[1]) = 2
    /\ Hops(last.paths[Len(last.paths)]) = 3
    /\ last.target \notin Neighbours(mapper, last.source)

====
